---- MODULE Spec2Model ----
(***************************************************************************)
(* OlehAssist (src/app.py): the per-session chat state, the upload gate,   *)
(* the tool-calling loop of one user turn, and the two tools.              *)
(*                                                                         *)
(* Python str values are TLA+ strings; a code point outside ASCII is       *)
(* written U+XXXX inside the string.  A Python dict is a function from     *)
(* keys to values (a record), the empty dict is << >>.                     *)
(***************************************************************************)
EXTENDS Integers, Sequences, FiniteSets, TLC

-----------------------------------------------------------------------------
(* Python str methods used by the code                                     *)

CharAt(s, i) == SubSeq(s, i, i)

\* dict.get(key, default)
dict_get(d, key, default) == IF key \in DOMAIN d THEN d[key] ELSE default

ASCII_UPPERCASE == "ABCDEFGHIJKLMNOPQRSTUVWXYZ"
ASCII_LOWERCASE == "abcdefghijklmnopqrstuvwxyz"

\* the case mappings of the ASCII letters
TO_LOWER ==
    [c \in {CharAt(ASCII_UPPERCASE, i) : i \in 1..Len(ASCII_UPPERCASE)} |->
        CharAt(ASCII_LOWERCASE,
               CHOOSE i \in 1..Len(ASCII_UPPERCASE) : CharAt(ASCII_UPPERCASE, i) = c)]
TO_UPPER ==
    [c \in {CharAt(ASCII_LOWERCASE, i) : i \in 1..Len(ASCII_LOWERCASE)} |->
        CharAt(ASCII_UPPERCASE,
               CHOOSE i \in 1..Len(ASCII_LOWERCASE) : CharAt(ASCII_LOWERCASE, i) = c)]

\* str.lower()
RECURSIVE str_lower(_)
str_lower(s) ==
    IF Len(s) = 0 THEN ""
    ELSE dict_get(TO_LOWER, Head(s), Head(s)) \o str_lower(Tail(s))

\* str.upper()
RECURSIVE str_upper(_)
str_upper(s) ==
    IF Len(s) = 0 THEN ""
    ELSE dict_get(TO_UPPER, Head(s), Head(s)) \o str_upper(Tail(s))

WHITESPACE == {" ", "\t", "\n", "\r"}

RECURSIVE str_lstrip(_)
str_lstrip(s) ==
    IF Len(s) > 0 /\ Head(s) \in WHITESPACE THEN str_lstrip(Tail(s)) ELSE s

RECURSIVE str_rstrip(_)
str_rstrip(s) ==
    IF Len(s) > 0 /\ CharAt(s, Len(s)) \in WHITESPACE
    THEN str_rstrip(SubSeq(s, 1, Len(s) - 1))
    ELSE s

\* str.strip()
str_strip(s) == str_rstrip(str_lstrip(s))

\* `needle in hay`
str_contains(hay, needle) ==
    \E i \in 1..(Len(hay) - Len(needle) + 1) :
        SubSeq(hay, i, i + Len(needle) - 1) = needle

\* `if x:` on a str
Truthy(s) == Len(s) > 0

-----------------------------------------------------------------------------
(* search_aliyah_information, src/app.py:51-121                            *)

NO_SNIPPET == "No snippet is available for this page."
NO_ANSWER_MSG ==
    "I could not find an answer to your question. Try rephrasing your question or being more specific."
NO_INFO_MSG == "No specific information found regarding your question."
SEARCH_ERROR_PREFIX == "Error searching knowledge base: "

\* one bullet line, lines 95-98 and 104-107
BulletLine(content, link) ==
    "- " \o content
         \o (IF Truthy(link) THEN " (Source: " \o link \o ")" ELSE "")
         \o "\n"

\* lines 92-98: the loop over extractive_segments
RECURSIVE SegmentLines(_, _)
SegmentLines(segments, link) ==
    IF Len(segments) = 0 THEN ""
    ELSE LET content == str_strip(dict_get(Head(segments), "content", ""))
         IN  (IF Truthy(content) THEN BulletLine(content, link) ELSE "")
                 \o SegmentLines(Tail(segments), link)

\* lines 101-107: the loop over snippets
RECURSIVE SnippetLines(_, _)
SnippetLines(snippets, link) ==
    IF Len(snippets) = 0 THEN ""
    ELSE LET snippet_content == str_strip(dict_get(Head(snippets), "snippet", ""))
         IN  (IF Truthy(snippet_content) /\ snippet_content # NO_SNIPPET
              THEN BulletLine(snippet_content, link) ELSE "")
                 \o SnippetLines(Tail(snippets), link)

\* ResultLines that reads the snippets of every result
ResultLinesAlsoSnippets(result) ==
    IF "derived_struct_data" \in DOMAIN result.document
    THEN LET data == result.document.derived_struct_data
             link == dict_get(data, "link", "")
         IN  SegmentLines(dict_get(data, "extractive_segments", << >>), link)
                 \o SnippetLines(dict_get(data, "snippets", << >>), link)
    ELSE ""

\* lines 86-107: what one result adds to results_text
ResultLines(result) ==
    IF "derived_struct_data" \in DOMAIN result.document
    THEN LET data == result.document.derived_struct_data
             link == dict_get(data, "link", "")
             extractive_segments == dict_get(data, "extractive_segments", << >>)
         IN  IF Len(extractive_segments) > 0
             THEN SegmentLines(extractive_segments, link)
             ELSE SnippetLines(dict_get(data, "snippets", << >>), link)
    ELSE ""

\* lines 82-107: results_text after the loop over response.results
RECURSIVE ResultsText(_)
ResultsText(results) ==
    IF Len(results) = 0 THEN ""
    ELSE ResultLines(Head(results)) \o ResultsText(Tail(results))

\* search_aliyah_information with the test of has_documents inverted
search_aliyah_information_swapped(query, backend) ==
    IF backend.ok
    THEN LET results_text == ResultsText(backend.results)
             has_documents == Len(backend.results) > 0
         IN  IF ~Truthy(results_text)
             THEN IF has_documents THEN NO_INFO_MSG ELSE NO_ANSWER_MSG
             ELSE results_text
    ELSE SEARCH_ERROR_PREFIX \o backend.error

\* The tool, given what de_client.search did: returned a response
\* ([ok |-> TRUE, results |-> ...]) or raised ([ok |-> FALSE, error |-> str(e)]).
search_aliyah_information(query, backend) ==
    IF backend.ok
    THEN LET results_text == ResultsText(backend.results)
             has_documents == Len(backend.results) > 0
         IN  IF ~Truthy(results_text)
             THEN IF has_documents THEN NO_ANSWER_MSG ELSE NO_INFO_MSG
             ELSE results_text
    ELSE SEARCH_ERROR_PREFIX \o backend.error

-----------------------------------------------------------------------------
(* find_ministry_of_aliyah_branch, src/app.py:123-139                      *)

\* dict(row.items()): a row is its sequence of <<column, value>> pairs; a
\* later pair of the same column replaces an earlier one
RowDict(items) ==
    [k \in {items[i][1] : i \in 1..Len(items)} |->
        items[CHOOSE i \in 1..Len(items) :
                 /\ items[i][1] = k
                 /\ \A j \in (i + 1)..Len(items) : items[j][1] # k][2]]

\* find_ministry_of_aliyah_branch that reports the query beside the error
find_ministry_of_aliyah_branch_with_query(query, backend) ==
    IF backend.ok
    THEN [i \in 1..Len(backend.rows) |-> RowDict(backend.rows[i])]
    ELSE <<[error |-> backend.error, query |-> query]>>

\* The tool, given what bq_client.query(query).result() did: returned rows
\* ([ok |-> TRUE, rows |-> ...]) or raised ([ok |-> FALSE, error |-> str(e)]).
find_ministry_of_aliyah_branch(query, backend) ==
    IF backend.ok
    THEN [i \in 1..Len(backend.rows) |-> RowDict(backend.rows[i])]
    ELSE <<[error |-> backend.error]>>

-----------------------------------------------------------------------------
(* Fixed texts of the chat interface, src/app.py:310-429                   *)

greeting ==
    "Hello! I am your personal Aliyah assistant. Before we begin, what is your preferred language?"
UPLOAD_COMMAND == "upload"
EXPLAIN_PROMPT == "Please explain this document for me."
warning_msg ==
    "U+1F4C1 No file attached. Please attach a file using the chat input, then type 'upload' again."
UNKNOWN_TOOL == "Unknown tool."
fallback == "I'm sorry, I didn't catch that. Could you please repeat?"
ERROR_PREFIX == "U+274C Error: "
menu_keywords == {"GENERAL INFORMATION", "DOCUMENT UNDERSTANDING", "FIRST STEPS"}
MENU_TEXT ==
    "I can help you with a few things. Please choose one of the following options:\n\n"
    \o "**A) GENERAL INFORMATION:**\n(rights, benefits, Sal Klita, health care, etc.)\n\n"
    \o "**B) DOCUMENT UNDERSTANDING:**\n(confusing forms, bills, letters, etc.)\n\n"
    \o "**C) FIRST STEPS & APPOINTMENTS:**\n(Guiding for essential first steps in Israel, such as setting up a phone, bank account, and making your Ministry of Aliyah Appointment)"

max_iterations == 5

SEARCH_TOOL == "search_aliyah_information"
BRANCH_TOOL == "find_ministry_of_aliyah_branch"

-----------------------------------------------------------------------------
(* The values the environment supplies                                     *)

MaxTurns == 2

\* what the user types into st.chat_input
UserTexts == {"upload", "UPLOAD", " upload "}

\* st.file_uploader: no file, or the selected file
None == [none |-> TRUE]
Files == {[data |-> "%PDF-1.7", type |-> "application/pdf"]}

\* google-genai parts
TextPart(t) == [text |-> t]
BytesPart(data, mime_type) == [inline_data |-> [data |-> data, mime_type |-> mime_type]]
FunctionCallPart(name, args) == [function_call |-> [name |-> name, args |-> args]]
FunctionResponsePart(name, resp) == [function_response |-> [name |-> name, response |-> resp]]
Candidate(parts) == [content |-> [parts |-> parts]]

PLAIN_TEXT == "Shalom! Which city do you live in?"
OracleTexts ==
    { PLAIN_TEXT,
      "Options: a) general information, b) Document Understanding, c) first steps & appointments",
      "GENERAL INFORMATION or FIRST STEPS?" }

QUERY == "How do I get health insurance?"

\* the tool requests the oracle makes: a registered tool with its declared
\* argument, without it, with one more; a tool that is not registered
FunctionCalls ==
    { FunctionCallPart(SEARCH_TOOL, [query |-> QUERY]),
      FunctionCallPart(SEARCH_TOOL, << >>),
      FunctionCallPart(BRANCH_TOOL, [query |-> QUERY]),
      FunctionCallPart(BRANCH_TOOL, [query |-> QUERY, city |-> "Haifa"]),
      FunctionCallPart("get_weather", [query |-> QUERY]) }

\* the responses chat_session.send_message returns
Responses ==
    { [candidates |-> << >>], [candidates |-> <<Candidate(<< >>)>>] }
    \cup { [candidates |-> <<Candidate(<<TextPart(t)>>)>>] : t \in OracleTexts }
    \cup { [candidates |-> <<Candidate(<<fc>>)>>] : fc \in FunctionCalls }
    \cup { [candidates |->
              <<Candidate(<<TextPart(PLAIN_TEXT),
                            FunctionCallPart(SEARCH_TOOL, [query |-> QUERY])>>)>>],
           [candidates |->
              <<Candidate(<<FunctionCallPart("get_weather", [query |-> QUERY]),
                            FunctionCallPart(SEARCH_TOOL, [query |-> QUERY])>>)>>],
           [candidates |->
              <<Candidate(<<TextPart(PLAIN_TEXT)>>),
                Candidate(<<FunctionCallPart(BRANCH_TOOL, [query |-> QUERY])>>)>>] }

\* str(e) of what chat_session.send_message raises
OracleErrors == {"503 UNAVAILABLE"}

\* what de_client.search does in a turn
HEALTH_RESULT ==
    [document |-> [derived_struct_data |->
        [link |-> "gov.il/health",
         extractive_segments |-> <<[content |-> "Apply via Clalit..."]>>]]]
EMPTY_RESULT == [document |-> [derived_struct_data |-> << >>]]
SearchBackend ==
    { [ok |-> FALSE, error |-> "403 Permission denied"],
      [ok |-> TRUE, results |-> << >>],
      [ok |-> TRUE, results |-> <<EMPTY_RESULT>>],
      [ok |-> TRUE, results |-> <<HEALTH_RESULT>>] }

\* what bq_client.query(query).result() does in a turn
StoreBackend ==
    { [ok |-> FALSE, error |-> "400 Syntax error"],
      [ok |-> TRUE, rows |-> << >>],
      [ok |-> TRUE, rows |-> << << <<"branch", "Haifa">>, <<"contact", "04-8631111">> >> >>] }

-----------------------------------------------------------------------------
(* State                                                                   *)

VARIABLES
    session_state,      \* st.session_state: << >>, then [chat_session, messages]
    uploaded_file,      \* the value of the st.file_uploader widget
    pc,                 \* where the script run that handles the prompt waits
    user_text,          \* line 333
    message_parts,      \* lines 342, 350
    response,           \* lines 364, 395
    iteration,          \* lines 368, 399
    function_call_part, \* lines 372, 379
    tool_name,          \* line 386
    tool_output,        \* lines 389-393
    exc,                \* str(e) of the exception travelling to line 426
    cap_warning,        \* line 402 showed the warning in this run
    oracle_in,          \* the message send_message is delivering to the oracle
    backend,            \* what the backend call of the running tool did
    chats_created,      \* calls of client.chats.create so far
    turns,              \* prompts submitted so far
    n_sends,            \* send_message calls of this run
    n_tool_calls        \* passes through the dispatch (lines 385-393) of this run

locals ==
    <<user_text, message_parts, response, iteration, function_call_part,
      tool_name, tool_output, exc, cap_warning, backend, n_sends, n_tool_calls>>

vars ==
    <<session_state, uploaded_file, pc, oracle_in, chats_created, turns, locals>>

Message(role, content) == [role |-> role, content |-> content]

\* EnsureSession without the test of line 310
EnsureSessionEveryRun(ss) ==
    [chat_session |-> chats_created + 1,
     messages |-> <<Message("assistant", greeting)>>]

\* lines 310-314
EnsureSession(ss) ==
    IF "chat_session" \notin DOMAIN ss
    THEN [chat_session |-> chats_created + 1,
          messages |-> <<Message("assistant", greeting)>>]
    ELSE ss

ChatCreations(ss) == IF "chat_session" \notin DOMAIN ss THEN 1 ELSE 0

\* AppendMessage that writes over the last entry
AppendMessageOverLast(ss, role, content) ==
    [ss EXCEPT !.messages = SubSeq(@, 1, Len(@) - 1) \o <<Message(role, content)>>]

\* st.session_state.messages.append
AppendMessage(ss, role, content) ==
    [ss EXCEPT !.messages = Append(@, Message(role, content))]

\* IsUploadCommand without the call of lower()
IsUploadCommandCaseSensitive(text) == text = UPLOAD_COMMAND

\* line 345: the test of the upload command
IsUploadCommand(text) == str_lower(text) = UPLOAD_COMMAND

\* MessageParts that appends to the parts of line 342 instead of replacing them
MessagePartsKeepText(text, file) ==
    IF IsUploadCommand(text)
    THEN <<TextPart(text), TextPart(EXPLAIN_PROMPT), BytesPart(file.data, file.type)>>
    ELSE <<TextPart(text)>>

\* MessageParts that attaches the selected file to every prompt
MessagePartsAttachAlways(text, file) ==
    IF file # None
    THEN <<TextPart(IF IsUploadCommand(text) THEN EXPLAIN_PROMPT ELSE text),
           BytesPart(file.data, file.type)>>
    ELSE <<TextPart(text)>>

\* lines 342-353: the parts sent for a prompt that goes on to the oracle
MessageParts(text, file) ==
    IF IsUploadCommand(text)
    THEN <<TextPart(EXPLAIN_PROMPT), BytesPart(file.data, file.type)>>
    ELSE <<TextPart(text)>>

\* FirstFunctionCall of a loop over the parts without the break of line 380
LastFunctionCall(resp) ==
    IF Len(resp.candidates) > 0
    THEN LET parts == resp.candidates[1].content.parts
             hits == {i \in 1..Len(parts) : "function_call" \in DOMAIN parts[i]}
         IN  IF hits # {}
             THEN parts[CHOOSE i \in hits : \A j \in hits : i >= j]
             ELSE None
    ELSE None

\* lines 374-380: the first part of the first candidate that holds a function call
FirstFunctionCall(resp) ==
    IF Len(resp.candidates) > 0
    THEN LET parts == resp.candidates[1].content.parts
             hits == {i \in 1..Len(parts) : "function_call" \in DOMAIN parts[i]}
         IN  IF hits # {}
             THEN parts[CHOOSE i \in hits : \A j \in hits : i <= j]
             ELSE None
    ELSE None

\* f(**args) of a function whose only parameter is `query`
ArgsBind(args) == DOMAIN args = {"query"}

\* str(e) of the TypeError of f(**args) when the arguments do not bind
BindError(name, args) ==
    IF \E k \in DOMAIN args : k # "query"
    THEN name \o "() got an unexpected keyword argument '"
              \o (CHOOSE k \in DOMAIN args : k # "query") \o "'"
    ELSE name \o "() missing 1 required positional argument: 'query'"

\* response.text: the text parts of the first candidate joined, "" for none
RECURSIVE JoinText(_)
JoinText(parts) ==
    IF Len(parts) = 0 THEN ""
    ELSE dict_get(Head(parts), "text", "") \o JoinText(Tail(parts))

ResponseText(resp) ==
    IF Len(resp.candidates) > 0
    THEN JoinText(resp.candidates[1].content.parts)
    ELSE ""

\* FormatMenu with any() in place of all()
FormatMenuAny(text) ==
    LET upper == str_upper(text)
    IN  IF Truthy(text) /\ \E key \in menu_keywords : str_contains(upper, key)
        THEN MENU_TEXT
        ELSE text

\* lines 408-416
FormatMenu(text) ==
    LET upper == str_upper(text)
    IN  IF Truthy(text) /\ \A key \in menu_keywords : str_contains(upper, key)
        THEN MENU_TEXT
        ELSE text

\* FinalText without the else branch of line 421
FinalTextNoFallback(resp) == FormatMenu(ResponseText(resp))

\* lines 405-424: the content of the assistant message of a finished turn
FinalText(resp) ==
    LET text == FormatMenu(ResponseText(resp))
    IN  IF Truthy(text) THEN text ELSE fallback

-----------------------------------------------------------------------------
(* Script runs                                                             *)

InitLocals ==
    /\ user_text = ""
    /\ message_parts = << >>
    /\ response = None
    /\ iteration = 0
    /\ function_call_part = None
    /\ tool_name = ""
    /\ tool_output = ""
    /\ exc = ""
    /\ cap_warning = FALSE
    /\ backend = None
    /\ n_sends = 0
    /\ n_tool_calls = 0

Init ==
    /\ session_state = << >>
    /\ uploaded_file = None
    /\ pc = "idle"
    /\ oracle_in = None
    /\ chats_created = 0
    /\ turns = 0
    /\ InitLocals

\* A run of the script with no prompt (the page loads, or the user changes the
\* file uploader): lines 310-329, and `if prompt` is false.
Rerun(file) ==
    /\ pc = "idle"
    /\ uploaded_file' = file
    /\ session_state' = EnsureSession(session_state)
    /\ chats_created' = chats_created + ChatCreations(session_state)
    /\ UNCHANGED <<pc, oracle_in, turns, locals>>

\* lines 345-346, 354: the turn ends at line 359 without a call of the oracle
ShortCircuits(text, file) == IsUploadCommand(text) /\ file = None

\* AppendWarning that shows the warning and does not record it
AppendWarningDisplayOnly(ss) == ss

\* lines 355-358: the warning of a short-circuited turn
AppendWarning(ss) == AppendMessage(ss, "assistant", warning_msg)

\* A run of the script with a prompt, up to the point where it ends (line
\* 359) or waits for the oracle (line 364): lines 310-364.
Submit(prompt) ==
    /\ pc = "idle"
    /\ turns < MaxTurns
    /\ turns' = turns + 1
    /\ chats_created' = chats_created + ChatCreations(session_state)
    /\ user_text' = prompt
    /\ LET ss == AppendMessage(EnsureSession(session_state), "user", prompt)
       IN  IF ShortCircuits(prompt, uploaded_file)
           THEN /\ session_state' = AppendWarning(ss)
                /\ message_parts' = <<TextPart(prompt)>>
                /\ oracle_in' = None
                /\ n_sends' = 0
                /\ pc' = "done"
           ELSE /\ session_state' = ss
                /\ message_parts' = MessageParts(prompt, uploaded_file)
                /\ oracle_in' = [chat |-> ss.chat_session,
                                 message |-> MessageParts(prompt, uploaded_file)]
                /\ n_sends' = 1
                /\ pc' = "await_first"
    /\ UNCHANGED <<uploaded_file, response, iteration, function_call_part, tool_name,
                   tool_output, exc, cap_warning, backend, n_tool_calls>>

\* LoopContinues of a loop `while True`
LoopContinuesUncapped(count, resp) == FirstFunctionCall(resp) # None

\* LoopContinues with the loop test off by one
LoopContinuesOffByOne(count, resp) ==
    count <= max_iterations /\ FirstFunctionCall(resp) # None

\* lines 370-383: the loop goes on to the dispatch
LoopContinues(count, resp) ==
    count < max_iterations /\ FirstFunctionCall(resp) # None

\* ShowsCapWarning that asks for a tool request left unanswered
ShowsCapWarningOnPendingCall(count, resp) ==
    count >= max_iterations /\ FirstFunctionCall(resp) # None

\* line 401: the test of the warning after the loop
ShowsCapWarning(count, resp) == count >= max_iterations

\* send_message returns r: lines 364-368 after the first call, 399 after a
\* later one; then the loop test and the search for a function call (lines
\* 370-383) and, when the loop is left, lines 401-424.  tool_name and
\* tool_output are not read again before lines 386-393 assign them: they are
\* dropped here.
OracleResponds(r) ==
    /\ pc \in {"await_first", "await_reply"}
    /\ LET count == IF pc = "await_first" THEN 0 ELSE iteration + 1
           looping == LoopContinues(count, r)
       IN  /\ response' = r
           /\ iteration' = count
           /\ function_call_part' = IF looping THEN FirstFunctionCall(r) ELSE None
           /\ cap_warning' = (~looping /\ ShowsCapWarning(count, r))
           /\ session_state' =
                 IF looping THEN session_state
                 ELSE AppendMessage(session_state, "assistant", FinalText(r))
           /\ pc' = IF looping THEN "tool" ELSE "done"
    /\ oracle_in' = None
    /\ tool_name' = ""
    /\ tool_output' = ""
    /\ backend' = None
    /\ UNCHANGED <<uploaded_file, chats_created, turns, user_text, message_parts,
                   exc, n_sends, n_tool_calls>>

\* OracleRaises that shows the error and does not record it
OracleRaisesDisplayOnly(e) ==
    /\ pc \in {"await_first", "await_reply"}
    /\ exc' = e
    /\ oracle_in' = None
    /\ pc' = "done"
    /\ UNCHANGED <<session_state, uploaded_file, chats_created, turns, user_text,
                   message_parts, response, iteration, function_call_part, tool_name,
                   tool_output, cap_warning, backend, n_sends, n_tool_calls>>

\* send_message raises e: lines 426-429
OracleRaises(e) ==
    /\ pc \in {"await_first", "await_reply"}
    /\ exc' = e
    /\ oracle_in' = None
    /\ session_state' = AppendMessage(session_state, "assistant", ERROR_PREFIX \o e)
    /\ pc' = "done"
    /\ UNCHANGED <<uploaded_file, chats_created, turns, user_text, message_parts,
                   response, iteration, function_call_part, tool_name, tool_output,
                   cap_warning, backend, n_sends, n_tool_calls>>

\* SendReply that leaves the name of the function response empty
SendReplyUnnamed(name, output) ==
    /\ oracle_in' = [chat |-> session_state.chat_session,
                     message |-> <<FunctionResponsePart("", [content |-> output])>>]
    /\ n_sends' = n_sends + 1
    /\ pc' = "await_reply"
    /\ UNCHANGED <<session_state, exc>>

\* lines 395-397: the function response handed to send_message
SendReply(name, output) ==
    /\ oracle_in' = [chat |-> session_state.chat_session,
                     message |-> <<FunctionResponsePart(name, [content |-> output])>>]
    /\ n_sends' = n_sends + 1
    /\ pc' = "await_reply"
    /\ UNCHANGED <<session_state, exc>>

\* the call f(**fc.args) does not bind: TypeError, lines 426-429
RaiseBindError(name, args) ==
    /\ exc' = BindError(name, args)
    /\ session_state' =
          AppendMessage(session_state, "assistant", ERROR_PREFIX \o BindError(name, args))
    /\ pc' = "done"
    /\ UNCHANGED <<tool_output, backend, oracle_in, n_sends>>

\* lines 388-393: the backend the tool of this name calls
Backends(name) ==
    IF name = SEARCH_TOOL THEN SearchBackend
    ELSE IF name = BRANCH_TOOL THEN StoreBackend
    ELSE {None}

\* CallRaises of a dispatch that looks the name up in a table of the tools
CallRaisesUnknownName(name, args) ==
    name \notin {SEARCH_TOOL, BRANCH_TOOL} \/ ~ArgsBind(args)

\* lines 388-393: the call f(**fc.args) raises before the tool runs
CallRaises(name, args) ==
    name \in {SEARCH_TOOL, BRANCH_TOOL} /\ ~ArgsBind(args)

\* lines 388-393: tool_output, given what the tool's backend did
CallTool(name, args, b) ==
    IF name = SEARCH_TOOL THEN search_aliyah_information(args.query, b)
    ELSE IF name = BRANCH_TOOL THEN find_ministry_of_aliyah_branch(args.query, b)
    ELSE UNKNOWN_TOOL

\* lines 385-397: the dispatch on the tool name, the call of the tool with
\* what its backend does, and the call of send_message with the tool's output
Dispatch ==
    /\ pc = "tool"
    /\ LET fc == function_call_part.function_call
       IN  /\ tool_name' = fc.name
           /\ n_tool_calls' = n_tool_calls + 1
           /\ IF CallRaises(fc.name, fc.args)
              THEN RaiseBindError(fc.name, fc.args)
              ELSE \E b \in Backends(fc.name) :
                      /\ backend' = b
                      /\ tool_output' = CallTool(fc.name, fc.args, b)
                      /\ SendReply(fc.name, CallTool(fc.name, fc.args, b))
    /\ UNCHANGED <<uploaded_file, chats_created, turns, user_text, message_parts,
                   response, iteration, function_call_part, cap_warning>>

\* the run ends (line 359 or the end of the script): its variables are gone
EndRun ==
    /\ pc = "done"
    /\ pc' = "idle"
    /\ user_text' = ""
    /\ message_parts' = << >>
    /\ response' = None
    /\ iteration' = 0
    /\ function_call_part' = None
    /\ tool_name' = ""
    /\ tool_output' = ""
    /\ exc' = ""
    /\ cap_warning' = FALSE
    /\ backend' = None
    /\ n_sends' = 0
    /\ n_tool_calls' = 0
    /\ UNCHANGED <<session_state, uploaded_file, oracle_in, chats_created, turns>>

Next ==
    \/ \E file \in Files \cup {None} : Rerun(file)
    \/ \E prompt \in UserTexts : Submit(prompt)
    \/ \E r \in Responses : OracleResponds(r)
    \/ \E e \in OracleErrors : OracleRaises(e)
    \/ Dispatch
    \/ EndRun

Spec == Init /\ [][Next]_vars

\* send_message returns or raises
OracleReturns ==
    \/ \E r \in Responses : OracleResponds(r)
    \/ \E e \in OracleErrors : OracleRaises(e)

\* Every call of the oracle and every call of a tool comes back, and a
\* script run that reached its last line ends.
Fairness ==
    /\ WF_vars(OracleReturns)
    /\ WF_vars(Dispatch)
    /\ WF_vars(EndRun)

\* the first MaxFairTurns turns of a session
MaxFairTurns == 1

SubmitFair(prompt) == turns < MaxFairTurns /\ Submit(prompt)

NextFair ==
    \/ \E file \in Files \cup {None} : Rerun(file)
    \/ \E prompt \in UserTexts : SubmitFair(prompt)
    \/ OracleReturns
    \/ Dispatch
    \/ EndRun

SpecFair == Init /\ [][NextFair]_vars /\ Fairness

-----------------------------------------------------------------------------
(* search_aliyah_information on its own: every response of the search      *)
(* backend with up to MaxDocs result documents, and a failure              *)

MaxDocs == 2

SegmentLists ==
    { << >>,
      <<[content |-> "Apply via Clalit..."]>>,
      <<[content |-> " \n"]>>,
      <<[uri |-> "gs://olim/health.pdf"], [content |-> " Bring your Teudat Zehut\n"]>> }

SnippetLists ==
    { << >>,
      <<[snippet |-> "Health funds in Israel"]>>,
      <<[snippet |-> NO_SNIPPET]>>,
      <<[snippet_status |-> "NO_SNIPPET_AVAILABLE"], [snippet |-> " Sal Klita payments "]>> }

SearchResults ==
    { [document |-> [derived_struct_data |->
          [link |-> l, extractive_segments |-> segs, snippets |-> snips]]] :
          l \in {"", "gov.il/health"}, segs \in SegmentLists, snips \in SnippetLists }
    \cup { [document |-> [derived_struct_data |-> << >>]],
           [document |-> [id |-> "doc-1"]] }

SearchResponses ==
    { [ok |-> TRUE, results |-> rs] :
          rs \in UNION { [1..n -> SearchResults] : n \in 0..MaxDocs } }
    \cup { [ok |-> FALSE, error |-> "403 Permission denied"] }

InitSearch ==
    /\ session_state = << >>
    /\ uploaded_file = None
    /\ pc = "search"
    /\ oracle_in = None
    /\ chats_created = 0
    /\ turns = 0
    /\ user_text = ""
    /\ message_parts = << >>
    /\ response = None
    /\ iteration = 0
    /\ function_call_part = None
    /\ tool_name = SEARCH_TOOL
    /\ tool_output = ""
    /\ exc = ""
    /\ cap_warning = FALSE
    /\ backend \in SearchResponses
    /\ n_sends = 0
    /\ n_tool_calls = 0

\* line 389: the tool is called and returns
RunSearch ==
    /\ pc = "search"
    /\ tool_output' = search_aliyah_information(QUERY, backend)
    /\ n_tool_calls' = n_tool_calls + 1
    /\ pc' = "searched"
    /\ UNCHANGED <<session_state, uploaded_file, oracle_in, chats_created, turns,
                   user_text, message_parts, response, iteration, function_call_part,
                   tool_name, exc, cap_warning, backend, n_sends>>

NextSearch == RunSearch

SpecSearch == InitSearch /\ [][NextSearch]_vars

-----------------------------------------------------------------------------
(* The end of a turn on its own (lines 401-424): every final text of the   *)
(* oracle made of up to MaxPieces pieces, answering the first message      *)

MaxPieces == 3

MenuPieces ==
    { "A) GENERAL INFORMATION", "general information", "Document Understanding",
      "first steps", "FIRST STEP", " & " }

RECURSIVE JoinPieces(_)
JoinPieces(pieces) ==
    IF Len(pieces) = 0 THEN "" ELSE Head(pieces) \o JoinPieces(Tail(pieces))

MenuTexts ==
    { JoinPieces(pieces) :
        pieces \in UNION { [1..n -> MenuPieces] : n \in 0..MaxPieces } }

MenuResponses == { [candidates |-> <<Candidate(<<TextPart(t)>>)>>] : t \in MenuTexts }

\* the first prompt of a session, the text " upload ", waits for the oracle
InitMenu ==
    /\ session_state =
          [chat_session |-> 1,
           messages |-> <<Message("assistant", greeting), Message("user", " upload ")>>]
    /\ uploaded_file = None
    /\ pc = "await_first"
    /\ oracle_in = [chat |-> 1, message |-> <<TextPart(" upload ")>>]
    /\ chats_created = 1
    /\ turns = 1
    /\ user_text = " upload "
    /\ message_parts = <<TextPart(" upload ")>>
    /\ response = None
    /\ iteration = 0
    /\ function_call_part = None
    /\ tool_name = ""
    /\ tool_output = ""
    /\ exc = ""
    /\ cap_warning = FALSE
    /\ backend = None
    /\ n_sends = 1
    /\ n_tool_calls = 0

NextMenu == \E r \in MenuResponses : OracleResponds(r)

SpecMenu == InitMenu /\ [][NextMenu]_vars

-----------------------------------------------------------------------------
(* Properties                                                              *)

Transcript ==
    IF "messages" \in DOMAIN session_state THEN session_state.messages ELSE << >>

LastMessage == Transcript[Len(Transcript)]

AssistantCount ==
    Cardinality({i \in 1..Len(Transcript) : Transcript[i].role = "assistant"})

ExplainPart == [text |-> "Please explain this document for me."]

WarningMessage ==
    [role |-> "assistant",
     content |-> "U+1F4C1 No file attached. Please attach a file using the chat input, then type 'upload' again."]

\* C1: whatever the oracle answers, a turn runs at most 5 tool invocations and
\* sends at most 5 function responses (at most 6 messages in all) to the
\* oracle, and 0 <= iteration <= 5 in every state of the turn.
C1_IterationCap ==
    /\ iteration >= 0
    /\ iteration <= 5
    /\ n_tool_calls <= 5
    /\ n_sends <= 6
    /\ (pc = "await_reply" => n_sends - 1 <= 5 /\ n_sends - 1 = n_tool_calls)

\* a turn in which all six responses of the oracle asked for a tool
C1_Witness ==
    /\ pc = "done"
    /\ iteration = 5
    /\ n_tool_calls = 5
    /\ n_sends = 6
    /\ FirstFunctionCall(response) # None

\* C2: on a turn whose text is the upload command and that has no attached
\* file, nothing is sent to the oracle, no tool runs, and exactly one assistant
\* message, the "No file attached" warning, is appended before the turn ends.
C2_UploadWithoutFile ==
    (pc # "idle" /\ str_lower(user_text) = "upload" /\ uploaded_file = None) =>
        /\ pc = "done"
        /\ n_sends = 0
        /\ n_tool_calls = 0
        /\ oracle_in = None
        /\ LastMessage = WarningMessage
        /\ AssistantCount = turns + 1

C2_Witness ==
    /\ pc = "done"
    /\ user_text = "UPLOAD"
    /\ uploaded_file = None
    /\ LastMessage = WarningMessage

\* the step that takes a prompt "upload" with no file attached
C3_UploadWithoutFileStep ==
    /\ pc = "idle"
    /\ pc' # "idle"
    /\ user_text' = "upload"
    /\ uploaded_file = None

\* the transcript a run starts from: the greeting is there from the first run on
C3_TranscriptBefore ==
    IF "messages" \in DOMAIN session_state
    THEN session_state.messages
    ELSE <<[role |-> "assistant", content |-> greeting]>>

\* C3 as stated: on a turn "upload" with no attached file the transcript after
\* the turn is the transcript before it extended by one entry, the warning.
C3_SoleAddition ==
    [][C3_UploadWithoutFileStep =>
          session_state'.messages = Append(C3_TranscriptBefore, WarningMessage)]_vars

\* C3, amended: on a turn "upload" with no attached file the transcript after
\* the turn is the transcript before it extended by exactly two entries, the
\* user's message "upload" and then the warning; the warning is the only
\* assistant message added.
C3_UserMessageThenWarning ==
    [][C3_UploadWithoutFileStep =>
          /\ session_state'.messages =
                C3_TranscriptBefore
                    \o <<[role |-> "user", content |-> "upload"], WarningMessage>>
          /\ pc' = "done"]_vars

C3_Witness ==
    /\ pc = "done"
    /\ user_text = "upload"
    /\ uploaded_file = None
    /\ turns = 2
    /\ Len(Transcript) = 5
    /\ Transcript[4] = [role |-> "user", content |-> "upload"]
    /\ Transcript[5] = WarningMessage

\* C4: on a turn whose text is the upload command and that has an attached
\* file, the first message sent to the oracle is exactly the fixed text "Please
\* explain this document for me." followed by one binary part with the file's
\* bytes and media type; the user's text is not among the parts.
C4_UploadParts ==
    (pc # "idle" /\ str_lower(user_text) = "upload" /\ uploaded_file # None) =>
        /\ n_sends >= 1
        /\ pc = "await_first" =>
              /\ n_sends = 1
              /\ oracle_in # None
              /\ oracle_in.message =
                    <<ExplainPart,
                      [inline_data |-> [data |-> uploaded_file.data,
                                        mime_type |-> uploaded_file.type]]>>
              /\ \A i \in 1..Len(oracle_in.message) :
                    "text" \in DOMAIN oracle_in.message[i]
                        => oracle_in.message[i].text # user_text

C4_Witness ==
    /\ pc = "await_first"
    /\ user_text = "UPLOAD"
    /\ uploaded_file \in Files
    /\ Len(oracle_in.message) = 2

\* C5 as stated: the gate takes a turn for the upload command exactly when the
\* text, trimmed and with case ignored, equals "upload"; for every other text
\* the parts sent to the oracle are the one-element sequence of the raw text.
C5_TrimmedGate ==
    LET command == str_lower(str_strip(user_text)) = "upload"
    IN  /\ (pc # "idle" /\ command /\ uploaded_file = None)
              => (pc = "done" /\ n_sends = 0)
        /\ (pc = "await_first" /\ command)
              => /\ Len(oracle_in.message) = 2
                 /\ oracle_in.message[1] = ExplainPart
        /\ (pc = "await_first" /\ ~command)
              => oracle_in.message = <<[text |-> user_text]>>

\* the name the oracle asked for is none of the two tools
C6_UnknownRequested ==
    function_call_part.function_call.name
        \notin {"search_aliyah_information", "find_ministry_of_aliyah_branch"}

\* C6: when the oracle asks for a tool that is neither
\* search_aliyah_information nor find_ministry_of_aliyah_branch, no backend is
\* called, the text "Unknown tool." goes back to the oracle as the function
\* response under the requested name, the turn is not aborted, and the round
\* trip counts towards the iteration cap like any other.
C6_UnknownTool ==
    /\ []((pc = "await_reply" /\ C6_UnknownRequested) =>
            /\ backend = None
            /\ exc = ""
            /\ tool_output = "Unknown tool."
            /\ oracle_in.message =
                  <<[function_response |->
                        [name |-> function_call_part.function_call.name,
                         response |-> [content |-> "Unknown tool."]]]>>)
    /\ [][(pc = "tool" /\ C6_UnknownRequested) =>
            /\ pc' = "await_reply"
            /\ n_sends' = n_sends + 1
            /\ n_tool_calls' = n_tool_calls + 1
            /\ UNCHANGED <<session_state, exc>>]_vars
    /\ [][(pc = "await_reply" /\ C6_UnknownRequested /\ exc' = "") =>
            /\ iteration' = iteration + 1
            /\ (iteration' >= 5 => pc' = "done")]_vars

\* the fifth round trip of a turn answers a request for an unknown tool
C6_Witness ==
    /\ pc = "await_reply"
    /\ tool_name = "get_weather"
    /\ tool_output = "Unknown tool."
    /\ iteration = 4

\* text contains key, case ignored
C7_ContainsIgnoreCase(text, key) == str_contains(str_lower(text), str_lower(key))

C7_HasAllMarkers(text) ==
    /\ C7_ContainsIgnoreCase(text, "GENERAL INFORMATION")
    /\ C7_ContainsIgnoreCase(text, "DOCUMENT UNDERSTANDING")
    /\ C7_ContainsIgnoreCase(text, "FIRST STEPS")

\* a turn that left the loop and reached lines 404-424
C7_Answered == pc = "done" /\ n_sends > 0 /\ exc = ""

\* C7: if the final text of the oracle contains "GENERAL INFORMATION",
\* "DOCUMENT UNDERSTANDING" and "FIRST STEPS", case ignored, the assistant
\* message appended is the canonical three-option menu and nothing else; if
\* the text is non-empty and lacks one of the three, the message appended is
\* the oracle's text unchanged.
C7_MenuFormatting ==
    C7_Answered =>
        LET text == ResponseText(response)
        IN  /\ C7_HasAllMarkers(text)
                  => LastMessage = [role |-> "assistant", content |-> MENU_TEXT]
            /\ (Len(text) > 0 /\ ~C7_HasAllMarkers(text))
                  => LastMessage = [role |-> "assistant", content |-> text]

\* a text in mixed case that names the three options was replaced by the menu
C7_Witness ==
    /\ C7_Answered
    /\ C7_HasAllMarkers(ResponseText(response))
    /\ ResponseText(response) # MENU_TEXT
    /\ LastMessage.content = MENU_TEXT

\* C10: neither tool raises on a backend failure: on a failure of the
\* structured store RecordLookupTool returns exactly one row whose only key is
\* `error`; on a failure of the search backend SearchTool returns a text that
\* is the error marker followed by the error's message; either value goes to
\* the oracle as an ordinary function response.
C10_BackendFailure ==
    (pc = "await_reply" /\ backend # None /\ ~backend.ok) =>
        /\ exc = ""
        /\ tool_name = "find_ministry_of_aliyah_branch" =>
              /\ Len(tool_output) = 1
              /\ DOMAIN tool_output[1] = {"error"}
              /\ tool_output[1].error = backend.error
        /\ tool_name = "search_aliyah_information" =>
              tool_output = "Error searching knowledge base: " \o backend.error
        /\ oracle_in.message =
              <<[function_response |->
                    [name |-> tool_name, response |-> [content |-> tool_output]]]>>

\* the store failed and the sentinel row is on its way to the oracle
C10_Witness ==
    /\ pc = "await_reply"
    /\ tool_name = "find_ministry_of_aliyah_branch"
    /\ backend = [ok |-> FALSE, error |-> "400 Syntax error"]
    /\ oracle_in.message[1].function_response.response.content
          = <<[error |-> "400 Syntax error"]>>

\* a call of send_message raises in this step
C11_SendRaisesStep == pc \in {"await_first", "await_reply"} /\ exc' # ""

\* the turn before this one ended with an error message
C11_LastTurnFailed ==
    /\ Len(Transcript) > 1
    /\ Len(LastMessage.content) >= Len("U+274C Error: ")
    /\ SubSeq(LastMessage.content, 1, Len("U+274C Error: ")) = "U+274C Error: "

\* C11: when a call of send_message raises, the first one or one that sends a
\* function response, the turn ends there, the transcript gains exactly one
\* entry, the assistant's error message, and the chat handle and the earlier
\* entries stay as they were; the run then ends with nothing left of it, and
\* the next prompt goes through the upload gate and on to the oracle over the
\* same chat handle like a prompt after a turn that did not fail.
C11_OracleFailure ==
    /\ [][C11_SendRaisesStep =>
            /\ pc' = "done"
            /\ oracle_in' = None
            /\ session_state'.chat_session = session_state.chat_session
            /\ session_state'.messages =
                  Append(session_state.messages,
                         [role |-> "assistant", content |-> "U+274C Error: " \o exc'])]_vars
    /\ [][(pc = "done" /\ exc # "") =>
            /\ pc' = "idle"
            /\ exc' = ""
            /\ iteration' = 0
            /\ n_sends' = 0
            /\ n_tool_calls' = 0
            /\ session_state' = session_state]_vars
    /\ [][(pc = "idle" /\ pc' # "idle" /\ C11_LastTurnFailed) =>
            LET command == str_lower(user_text') = "upload"
            IN  /\ session_state'.chat_session = session_state.chat_session
                /\ IF command /\ uploaded_file = None
                   THEN pc' = "done" /\ oracle_in' = None /\ LastMessage' = WarningMessage
                   ELSE /\ pc' = "await_first"
                        /\ session_state'.messages =
                              Append(session_state.messages,
                                     [role |-> "user", content |-> user_text'])
                        /\ oracle_in'.chat = session_state.chat_session
                        /\ oracle_in'.message =
                              IF command
                              THEN <<ExplainPart,
                                     [inline_data |-> [data |-> uploaded_file.data,
                                                       mime_type |-> uploaded_file.type]]>>
                              ELSE <<[text |-> user_text']>>]_vars

\* the first turn failed at its first send; the second went round the loop and
\* failed at the send of a function response
C11_Witness ==
    /\ turns = 2
    /\ pc = "done"
    /\ exc = "503 UNAVAILABLE"
    /\ n_sends >= 2
    /\ session_state.chat_session = 1
    /\ Len(Transcript) = 5
    /\ Transcript[3] = [role |-> "assistant", content |-> "U+274C Error: 503 UNAVAILABLE"]
    /\ Transcript[5] = [role |-> "assistant", content |-> "U+274C Error: 503 UNAVAILABLE"]

\* C12 as stated: only a call of the oracle that raises aborts a turn; for
\* every tool request of the oracle, whatever its name and its arguments (a
\* mapping without `query`, or with more keys), the dispatch gives a result
\* that is sent back to the oracle as a function response, and the tool step
\* never ends the turn with the error message.
C12_ToolStepNeverAborts ==
    [][pc = "tool" =>
          /\ exc' = ""
          /\ pc' = "await_reply"
          /\ session_state' = session_state
          /\ oracle_in'.message =
                <<[function_response |->
                      [name |-> function_call_part.function_call.name,
                       response |-> [content |-> tool_output']]]>>]_vars

\* the turn is under way: a call of the oracle or of a tool is pending
C13_InTurn == pc \in {"await_first", "tool", "await_reply"}

\* C13: provided every call of the oracle and of a tool returns or raises,
\* every turn reaches its end, whatever the oracle answers and even if each
\* answer asks for a tool: the loop runs at most 5 times (at most 6 sends),
\* and at the end the turn has added one assistant message, the last entry
\* of a transcript of 1 + 2 * turns entries.
C13_TurnTerminates ==
    /\ [](C13_InTurn => (iteration <= 5 /\ n_tool_calls <= 5 /\ n_sends <= 6))
    /\ (C13_InTurn ~>
           (/\ pc = "done"
            /\ Len(Transcript) = 1 + 2 * turns
            /\ LastMessage.role = "assistant"
            /\ Transcript[Len(Transcript) - 1].role = "user"))

\* a turn ended after six answers that all asked for a tool
C13_Witness ==
    /\ pc = "done"
    /\ n_sends = 6
    /\ iteration = 5
    /\ FirstFunctionCall(response) # None
    /\ Len(Transcript) = 1 + 2 * turns
    /\ LastMessage = [role |-> "assistant", content |-> fallback]

\* the response has no candidate, or no part of its first candidate has text
C14_NoFreeText(resp) ==
    \/ Len(resp.candidates) = 0
    \/ \A i \in 1..Len(resp.candidates[1].content.parts) :
          LET part == resp.candidates[1].content.parts[i]
          IN  "text" \notin DOMAIN part \/ part.text = ""

\* the response asks for a tool in some part of its first candidate
C14_HasToolCall(resp) ==
    /\ Len(resp.candidates) > 0
    /\ \E i \in 1..Len(resp.candidates[1].content.parts) :
          "function_call" \in DOMAIN resp.candidates[1].content.parts[i]

\* C14: when the response held as the loop is left has no free text, also
\* when the loop was left at the cap and the response still asks for a tool,
\* the assistant message appended is the fallback phrase; the message appended
\* after the loop is never empty and never names the tool call left unanswered.
C14_FallbackText ==
    (pc = "done" /\ n_sends > 0 /\ exc = "") =>
        /\ LastMessage.role = "assistant"
        /\ LastMessage.content # ""
        /\ C14_NoFreeText(response) =>
              LastMessage.content = "I'm sorry, I didn't catch that. Could you please repeat?"
        /\ (C14_HasToolCall(response) /\ C14_NoFreeText(response)) =>
              /\ iteration = 5
              /\ \A i \in 1..Len(response.candidates[1].content.parts) :
                    LET part == response.candidates[1].content.parts[i]
                    IN  "function_call" \in DOMAIN part =>
                            ~str_contains(LastMessage.content, part.function_call.name)

\* the loop was left at the cap with a response that only asks for a tool
C14_Witness ==
    /\ pc = "done"
    /\ exc = ""
    /\ cap_warning
    /\ C14_HasToolCall(response)
    /\ C14_NoFreeText(response)
    /\ LastMessage.content = fallback

\* the places of the tool-call parts among the parts of the first candidate
C15_Calls(resp) ==
    IF Len(resp.candidates) = 0 THEN {}
    ELSE { i \in 1..Len(resp.candidates[1].content.parts) :
             "function_call" \in DOMAIN resp.candidates[1].content.parts[i] }

\* the name the first tool-call part of the first candidate asks for
C15_FirstName(resp) ==
    LET i == CHOOSE i \in C15_Calls(resp) : \A j \in C15_Calls(resp) : i <= j
    IN  resp.candidates[1].content.parts[i].function_call.name

\* C15: for each response the loop inspects at most one tool runs, the one the
\* first tool-call part of the first candidate names, and one function
\* response, under that name, answers it; a later tool-call part of the
\* response and the parts of another candidate are neither run nor answered:
\* after the tool has run nothing runs before the next response, and a
\* response whose first candidate asks for no tool ends the turn.
C15_OneToolPerResponse ==
    /\ [](pc = "tool" =>
            /\ C15_Calls(response) # {}
            /\ function_call_part.function_call.name = C15_FirstName(response)
            /\ n_tool_calls = iteration)
    /\ [](pc = "await_reply" =>
            /\ tool_name = C15_FirstName(response)
            /\ n_tool_calls = iteration + 1
            /\ n_sends = iteration + 2
            /\ Len(oracle_in.message) = 1
            /\ oracle_in.message[1].function_response.name = C15_FirstName(response))
    /\ []((pc = "done" /\ response # None) =>
            (n_tool_calls <= iteration + 1 /\ n_sends <= iteration + 2))
    /\ [][pc = "tool" => (pc' # "tool" /\ n_tool_calls' = n_tool_calls + 1)]_vars
    /\ [][(pc \in {"await_first", "await_reply"} /\ exc' = ""
              /\ C15_Calls(response') = {}) =>
            (pc' = "done" /\ n_tool_calls' = n_tool_calls /\ n_sends' = n_sends)]_vars

\* of the two tool-call parts of a response the first was run and answered
C15_Witness ==
    /\ pc = "await_reply"
    /\ Cardinality(C15_Calls(response)) = 2
    /\ tool_name = "get_weather"
    /\ oracle_in.message[1].function_response.name = "get_weather"
    /\ \E i \in C15_Calls(response) :
          response.candidates[1].content.parts[i].function_call.name
              = "search_aliyah_information"

\* function responses sent so far in the turn: every send but the first
C16_ResponsesSent == IF n_sends = 0 THEN 0 ELSE n_sends - 1

\* C16 as stated: the events of a turn come in the order send, response, then
\* (tool execution, send of the function response, response) repeated; every
\* tool request is executed exactly once and answered by one function
\* response, and the iteration counter always equals the number of function
\* responses sent so far in the turn.
C16_CounterEqualsSent ==
    /\ [](pc \in {"await_first", "tool", "await_reply", "done"} =>
            iteration = C16_ResponsesSent)
    /\ [][pc = "tool" =>
            (pc' = "await_reply" /\ n_tool_calls' = n_tool_calls + 1
                /\ n_sends' = n_sends + 1)]_vars
    /\ []((pc = "done" /\ response # None) => C15_Calls(response) = {})

\* C16, amended: the events of a turn come in the order send, response, then
\* (tool execution, send of the function response, response) repeated: a tool
\* that has run is followed at once by one send, which carries the name asked
\* for and the tool's result, and then nothing is run or sent before the
\* oracle answers or raises; a tool call whose arguments do not bind ends the
\* turn with no send.  A tool request is executed at most once.  The
\* iteration counter equals the number of function-response sends that have
\* returned: it is one short of the number sent while a send is pending.
C16_Ordering ==
    /\ [](pc = "await_first" => (n_sends = 1 /\ n_tool_calls = 0 /\ iteration = 0))
    /\ [](pc = "tool" =>
            (iteration = C16_ResponsesSent /\ n_tool_calls = C16_ResponsesSent))
    /\ [](pc = "await_reply" =>
            (iteration = C16_ResponsesSent - 1 /\ n_tool_calls = C16_ResponsesSent))
    /\ []((pc = "done" /\ n_sends > 0 /\ exc = "") =>
            (iteration = C16_ResponsesSent /\ n_tool_calls = C16_ResponsesSent))
    /\ [][pc = "tool" =>
            /\ n_tool_calls' = n_tool_calls + 1
            /\ IF exc' = ""
               THEN /\ pc' = "await_reply"
                    /\ n_sends' = n_sends + 1
                    /\ oracle_in'.message =
                          <<[function_response |->
                                [name |-> function_call_part.function_call.name,
                                 response |-> [content |-> tool_output']]]>>
               ELSE pc' = "done" /\ n_sends' = n_sends /\ backend' = None]_vars
    /\ [][(pc = "await_first" \/ pc = "await_reply") =>
            /\ pc' \in {"tool", "done"}
            /\ n_sends' = n_sends
            /\ n_tool_calls' = n_tool_calls
            /\ ((exc' = "" /\ pc = "await_reply") => iteration' = C16_ResponsesSent)]_vars

\* the third function response of a turn is on its way, the counter is at 2
C16_Witness ==
    /\ pc = "await_reply"
    /\ C16_ResponsesSent = 3
    /\ n_tool_calls = 3
    /\ iteration = 2
    /\ tool_name = "find_ministry_of_aliyah_branch"
    /\ oracle_in.message[1].function_response.name = "find_ministry_of_aliyah_branch"

\* s is an initial part of t
C17_IsPrefix(s, t) == Len(s) <= Len(t) /\ SubSeq(t, 1, Len(s)) = s

\* a turn ended in this step
C17_TurnEnds == pc # "done" /\ pc' = "done"

\* C17: the transcript only grows at its end and keeps one shape: it starts
\* with the greeting, the one assistant message before the first turn, and
\* every turn (a short-circuited upload, an answer, an answer at the cap, a
\* turn an exception ended) adds one user message and then one assistant
\* message and changes no earlier entry, so that after n turns it has 1 + 2n
\* entries.
C17_TranscriptShape ==
    /\ [][C17_IsPrefix(Transcript, Transcript')]_vars
    /\ [](Len(Transcript) > 0 =>
            /\ Transcript[1] =
                  [role |-> "assistant",
                   content |-> "Hello! I am your personal Aliyah assistant. Before we begin, what is your preferred language?"]
            /\ \A i \in 2..Len(Transcript) :
                  Transcript[i].role = IF i % 2 = 0 THEN "user" ELSE "assistant")
    /\ []((pc \in {"idle", "done"} /\ Len(Transcript) > 0) =>
            Len(Transcript) = 1 + 2 * turns)
    /\ []((pc \in {"await_first", "tool", "await_reply"}) =>
            (Len(Transcript) = 2 * turns /\ LastMessage.role = "user"))
    /\ [][(pc = "idle" /\ pc' # "idle") =>
            /\ Len(Transcript') >= 2 * turns'
            /\ Transcript'[2 * turns'] = [role |-> "user", content |-> user_text']]_vars
    /\ [][(C17_TurnEnds /\ pc # "idle") =>
            (Len(Transcript') = Len(Transcript) + 1 /\ LastMessage'.role = "assistant")]_vars

\* a short-circuited upload, then a turn an exception ended
C17_Witness ==
    /\ pc = "idle"
    /\ turns = 2
    /\ Len(Transcript) = 5
    /\ Transcript[3] = WarningMessage
    /\ Transcript[5].role = "assistant"
    /\ Len(Transcript[5].content) > Len("U+274C Error: ")
    /\ SubSeq(Transcript[5].content, 1, Len("U+274C Error: ")) = "U+274C Error: "

\* the entries of the transcript that are the greeting
C18_Greetings ==
    { i \in 1..Len(Transcript) :
        Transcript[i] =
            [role |-> "assistant",
             content |-> "Hello! I am your personal Aliyah assistant. Before we begin, what is your preferred language?"] }

\* C18: in a session the chat handle is created once and the greeting is
\* appended once, however often the script runs and however many turns it
\* handles; every message of every turn, also of a turn after a
\* short-circuited one or one an exception ended, is sent over that handle.
C18_OneChatHandle ==
    /\ [](chats_created <= 1)
    /\ [](session_state # << >> =>
            /\ chats_created = 1
            /\ session_state.chat_session = 1
            /\ C18_Greetings = {1})
    /\ [](oracle_in # None => oracle_in.chat = session_state.chat_session)
    /\ [][session_state # << >> =>
            session_state'.chat_session = session_state.chat_session]_vars
    /\ [][pc = "idle" =>
            (chats_created' = IF session_state = << >> THEN 1 ELSE chats_created)]_vars

\* after a short-circuited turn and several runs without a prompt, the second
\* turn sends a function response over the handle of the first run
C18_Witness ==
    /\ turns = 2
    /\ pc = "await_reply"
    /\ Transcript[3] = WarningMessage
    /\ uploaded_file # None
    /\ chats_created = 1
    /\ oracle_in.chat = 1
    /\ n_sends = 3

\* the tool round trips of the turn: the function responses sent whose send
\* has returned (the last send of a turn an oracle failure ended has not)
C19_RoundTrips ==
    IF n_sends = 0 THEN 0
    ELSE IF exc # "" /\ n_tool_calls = n_sends - 1 /\ n_sends > 1 THEN n_sends - 2
    ELSE n_sends - 1

\* C19: a turn shows the warning of the iteration cap exactly if it made 5
\* tool round trips, whatever the last response holds: never with fewer than
\* 5, and also when the answer to the 5th function response is plain text
\* with no tool request.
C19_CapWarning ==
    /\ pc = "done" => (cap_warning <=> C19_RoundTrips = 5)
    /\ pc # "done" => ~cap_warning
    /\ C19_RoundTrips <= 5

\* the answer to the 5th function response was plain text, the warning shows
C19_Witness ==
    /\ pc = "done"
    /\ cap_warning
    /\ C19_RoundTrips = 5
    /\ C15_Calls(response) = {}
    /\ LastMessage.content = PLAIN_TEXT

\* the parts of the message on its way to the oracle that carry bytes
C21_BinaryParts ==
    IF oracle_in = None THEN {}
    ELSE { i \in 1..Len(oracle_in.message) : "inline_data" \in DOMAIN oracle_in.message[i] }

\* C21: the bytes of the file selected in the uploader go to the oracle only
\* on a turn the upload gate took for the upload command, in the first
\* message of that turn; on every other turn, with or without a file
\* selected, no message sent to the oracle, first message or function
\* response, has a binary part.
C21_BytesOnlyOnUpload ==
    /\ [](C21_BinaryParts # {} =>
            /\ str_lower(user_text) = "upload"
            /\ uploaded_file # None
            /\ pc = "await_first"
            /\ \A i \in C21_BinaryParts :
                  oracle_in.message[i].inline_data =
                      [data |-> uploaded_file.data, mime_type |-> uploaded_file.type])
    /\ []((oracle_in # None /\ str_lower(user_text) # "upload") => C21_BinaryParts = {})
    /\ [](pc = "await_reply" =>
            (C21_BinaryParts = {}
                /\ DOMAIN oracle_in.message[1] = {"function_response"}))
    /\ [][(pc = "idle" /\ pc' = "await_first" /\ str_lower(user_text') # "upload") =>
            oracle_in'.message = <<[text |-> user_text']>>]_vars

\* a file is selected, the text is not the upload command: the first message
\* went out as text and a function response is on its way, no bytes in either
C21_Witness ==
    /\ pc = "await_reply"
    /\ uploaded_file \in Files
    /\ user_text = " upload "
    /\ message_parts = <<[text |-> " upload "]>>
    /\ oracle_in # None
    /\ C21_BinaryParts = {}

-----------------------------------------------------------------------------
(* Properties of search_aliyah_information, under SpecSearch               *)

C8_Results == IF backend.ok THEN backend.results ELSE << >>

\* C8: SearchTool returns the "no information found" message for every
\* response with zero result documents and the "could not find an answer"
\* message for every response with at least one document and no bullet line;
\* the two messages differ and neither is returned in the other case.
C8_EmptyResultMessages ==
    LET no_info == "No specific information found regarding your question."
        no_answer ==
            "I could not find an answer to your question. Try rephrasing your question or being more specific."
        no_bullet == ResultsText(C8_Results) = ""
    IN  (pc = "searched" /\ backend.ok) =>
            /\ no_info # no_answer
            /\ Len(C8_Results) = 0 => tool_output = no_info
            /\ (Len(C8_Results) > 0 /\ no_bullet) => tool_output = no_answer
            /\ tool_output = no_info => Len(C8_Results) = 0
            /\ tool_output = no_answer => (Len(C8_Results) > 0 /\ no_bullet)

\* two documents came back and neither gave a bullet line
C8_Witness ==
    /\ pc = "searched"
    /\ backend.ok
    /\ Len(C8_Results) = 2
    /\ tool_output = NO_ANSWER_MSG

C9_Data(result) ==
    IF "derived_struct_data" \in DOMAIN result.document
    THEN result.document.derived_struct_data
    ELSE << >>

C9_Segments(result) == dict_get(C9_Data(result), "extractive_segments", << >>)
C9_Snippets(result) == dict_get(C9_Data(result), "snippets", << >>)
C9_Link(result) == dict_get(C9_Data(result), "link", "")

\* the bullet lines the segments of a result stand for
C9_SegmentBullets(result) ==
    { BulletLine(str_strip(dict_get(C9_Segments(result)[k], "content", "")),
                 C9_Link(result)) :
        k \in { k \in 1..Len(C9_Segments(result)) :
                  str_strip(dict_get(C9_Segments(result)[k], "content", "")) # "" } }

\* the bullet lines the snippets of a result stand for
C9_SnippetBullets(result) ==
    { BulletLine(str_strip(dict_get(C9_Snippets(result)[k], "snippet", "")),
                 C9_Link(result)) :
        k \in { k \in 1..Len(C9_Snippets(result)) :
                  str_strip(dict_get(C9_Snippets(result)[k], "snippet", ""))
                      \notin {"", NO_SNIPPET} } }

\* the lines some segment, or some snippet of a result without segments, gives
C9_OtherSources ==
    UNION { C9_SegmentBullets(C8_Results[i]) : i \in 1..Len(C8_Results) }
    \cup UNION { C9_SnippetBullets(C8_Results[i]) :
                    i \in { i \in 1..Len(C8_Results) :
                              Len(C9_Segments(C8_Results[i])) = 0 } }

\* C9: for every result document that carries at least one extractive
\* segment, the output holds no bullet line built from a snippet of that
\* document (a line that no segment and no snippet of a document without
\* segments gives as well).
C9_SegmentsShadowSnippets ==
    (pc = "searched" /\ backend.ok) =>
        \A i \in 1..Len(C8_Results) :
            Len(C9_Segments(C8_Results[i])) > 0 =>
                \A line \in C9_SnippetBullets(C8_Results[i]) \ C9_OtherSources :
                    ~str_contains(tool_output, line)

\* a document with a usable segment and a usable snippet gave its segment only
C9_Witness ==
    /\ pc = "searched"
    /\ backend.ok
    /\ Len(C8_Results) = 1
    /\ C9_SegmentBullets(C8_Results[1]) # {}
    /\ C9_SnippetBullets(C8_Results[1]) \ C9_OtherSources # {}
    /\ tool_output = "- Apply via Clalit... (Source: gov.il/health)\n"

\* C20 as stated: for each result SearchTool uses the content of the
\* extractive segments when the result has such content and the snippets
\* otherwise: every result document without a non-empty segment content and
\* with a non-empty snippet other than the placeholder gives a bullet line, so
\* the "could not find an answer" message is returned only when no document
\* has a non-empty segment content or a non-empty snippet other than the
\* placeholder.
C20_SnippetFallback ==
    (pc = "searched" /\ backend.ok) =>
        /\ \A i \in 1..Len(C8_Results) :
              (C9_SegmentBullets(C8_Results[i]) = {}
                  /\ C9_SnippetBullets(C8_Results[i]) # {}) =>
                  \E line \in C9_SnippetBullets(C8_Results[i]) :
                      str_contains(tool_output, line)
        /\ tool_output =
              "I could not find an answer to your question. Try rephrasing your question or being more specific."
              => \A i \in 1..Len(C8_Results) :
                    /\ C9_SegmentBullets(C8_Results[i]) = {}
                    /\ C9_SnippetBullets(C8_Results[i]) = {}

====
